---- MODULE Spec2Model ----
(***************************************************************************)
(* Model of table/block.cc: the reader of one prefix-compressed block.     *)
(*                                                                         *)
(* A block is a byte buffer                                                *)
(*     entry* fixed32(restart offset)* fixed32(num_restarts)               *)
(* Byte offsets are 0-based as in the code; buf[o + 1] is the byte at      *)
(* offset o.                                                               *)
(***************************************************************************)
EXTENDS Integers, Sequences, FiniteSets, TLC

\* ---------------------------------------------------------------- bounds
MaxKeyLen == 2
MaxEntries == 3
MaxInterval == 3
MaxPieces == 4
MaxRestarts == 2

\* ------------------------------------------------------ 32-bit quantities
\* A uint32_t (or a wider intermediate such as a pointer difference) that
\* may exceed the range of the model checker's integers is kept as a pair
\* << hi, lo >> standing for hi * 2^16 + lo, with 0 <= lo < 2^16.
\* Quantities that the code bounds by the buffer size stay plain integers.
B16 == 65536

W(n) == << n \div B16, n % B16 >>

WAdd(a, b) == << a[1] + b[1] + ((a[2] + b[2]) \div B16), (a[2] + b[2]) % B16 >>

\* Truncation to uint32_t.
WMod32(a) == << a[1] % B16, a[2] >>

WLess(a, b) == a[1] < b[1] \/ (a[1] = b[1] /\ a[2] < b[2])

WLeq(a, b) == ~ WLess(b, a)

\* The plain integer a stands for; only used where a is known to be small.
ToInt(a) == a[1] * B16 + a[2]

\* c << shift as a uint32_t, for a 7-bit c and shift in {0, 7, 14, 21, 28}.
WShl(c, shift) ==
  IF shift < 16 THEN W(c * (2 ^ shift))
  ELSE WMod32(<< c * (2 ^ (shift - 16)), 0 >>)

\* ------------------------------------------------------- byte-level codecs
\* v is a plain integer below 2^31.
Fixed32(v) ==
  << v % 256, (v \div 256) % 256, (v \div 65536) % 256, (v \div 16777216) % 256 >>

DecodeFixed32(buf, off) ==
  << buf[off + 3] + 256 * buf[off + 4], buf[off + 1] + 256 * buf[off + 2] >>

RECURSIVE EncodeVarint32(_)
EncodeVarint32(v) ==
  IF v < 128 THEN << v >>
  ELSE << (v % 128) + 128 >> \o EncodeVarint32(v \div 128)

\* The bytes buf[p .. p+n-1] (0-based), n >= 0, all inside the buffer.
Bytes(buf, p, n) == [i \in 1..n |-> buf[p + i]]

\* Three-way bytewise comparison: -1, 0 or 1.
RECURSIVE CompareFrom(_, _, _)
CompareFrom(a, b, i) ==
  IF i > Len(a) \/ i > Len(b)
  THEN (IF Len(a) < Len(b) THEN -1 ELSE IF Len(a) > Len(b) THEN 1 ELSE 0)
  ELSE IF a[i] < b[i] THEN -1
  ELSE IF a[i] > b[i] THEN 1
  ELSE CompareFrom(a, b, i + 1)

Compare(a, b) == CompareFrom(a, b, 1)

\* GetVarint32Ptr: at most five bytes, each read only while p < limit.  The
\* 7-bit groups occupy disjoint bits, so |= is addition; the fifth group is
\* truncated to 32 bits by the shift.
RECURSIVE GetVarint32PtrFallback(_, _, _, _, _)
GetVarint32PtrFallback(buf, p, limit, shift, result) ==
  IF shift > 28 \/ p >= limit
  THEN [ok |-> FALSE, value |-> W(0), p |-> p]
  ELSE LET byte == buf[p + 1] IN
       IF byte >= 128
       THEN GetVarint32PtrFallback(buf, p + 1, limit, shift + 7,
                                   WAdd(result, WShl(byte % 128, shift)))
       ELSE [ok |-> TRUE, value |-> WAdd(result, WShl(byte, shift)), p |-> p + 1]

GetVarint32Ptr(buf, p, limit) ==
  IF p < limit /\ buf[p + 1] < 128
  THEN [ok |-> TRUE, value |-> W(buf[p + 1]), p |-> p + 1]
  ELSE GetVarint32PtrFallback(buf, p, limit, 0, W(0))

\* ----------------------------------------------------------- DecodeEntry
DecodeFail ==
  [ok |-> FALSE, shared |-> W(0), non_shared |-> W(0), value_length |-> W(0), p |-> 0]

\* The length check of DecodeEntry: both sides are uint32_t, so the sum of
\* the two decoded lengths wraps modulo 2^32.
LengthsFit(remaining, non_shared, value_length) ==
  ~ WLess(W(remaining), WMod32(WAdd(non_shared, value_length)))

\* The slow path: three varints in a row, each starting where the one
\* before it ended; any failure is the nullptr result.
Varint3(v1, v2, v3) ==
  IF ~ v3.ok THEN DecodeFail
  ELSE [ok |-> TRUE, shared |-> v1.value, non_shared |-> v2.value,
        value_length |-> v3.value, p |-> v3.p]

Varint2(buf, limit, v1, v2) ==
  IF ~ v2.ok THEN DecodeFail
  ELSE Varint3(v1, v2, GetVarint32Ptr(buf, v2.p, limit))

Varint1(buf, limit, v1) ==
  IF ~ v1.ok THEN DecodeFail
  ELSE Varint2(buf, limit, v1, GetVarint32Ptr(buf, v1.p, limit))

\* DecodeHeader whose fast path steps over two of the three length bytes.
DecodeHeaderShort(buf, p, limit) ==
  IF buf[p + 1] < 128 /\ buf[p + 2] < 128 /\ buf[p + 3] < 128
  THEN [ok |-> TRUE, shared |-> W(buf[p + 1]), non_shared |-> W(buf[p + 2]),
        value_length |-> W(buf[p + 3]), p |-> p + 2]
  ELSE Varint1(buf, limit, GetVarint32Ptr(buf, p, limit))

\* The three lengths of the entry at p, which has at least 3 bytes.
DecodeHeader(buf, p, limit) ==
  IF buf[p + 1] < 128 /\ buf[p + 2] < 128 /\ buf[p + 3] < 128
  THEN [ok |-> TRUE, shared |-> W(buf[p + 1]), non_shared |-> W(buf[p + 2]),
        value_length |-> W(buf[p + 3]), p |-> p + 3]
  ELSE Varint1(buf, limit, GetVarint32Ptr(buf, p, limit))

\* The final check of DecodeEntry on the decoded header h.
CheckLengths(limit, h) ==
  IF ~ h.ok THEN DecodeFail
  ELSE IF ~ LengthsFit(limit - h.p, h.non_shared, h.value_length) THEN DecodeFail
  ELSE h

\* p (a pair) and limit are offsets into buf; the result's p is the offset
\* of the key delta.  ok = FALSE stands for the nullptr result.
\* limit - p < 3 is p + 3 > limit.
DecodeEntry(buf, p, limit) ==
  IF WLess(W(limit), WAdd(p, W(3))) THEN DecodeFail
  ELSE CheckLengths(limit, DecodeHeader(buf, ToInt(p), limit))

\* ------------------------------------------------ reference block encoder
RECURSIVE SharedPrefixFrom(_, _, _)
SharedPrefixFrom(a, b, n) ==
  IF n < Len(a) /\ n < Len(b) /\ a[n + 1] = b[n + 1]
  THEN SharedPrefixFrom(a, b, n + 1)
  ELSE n

\* One BlockBuilder::Add: b = [buffer, restarts, counter, last_key].
BuilderAdd(b, interval, key, value) ==
  LET restart == ~ (b.counter < interval)
      shared == IF restart THEN 0 ELSE SharedPrefixFrom(b.last_key, key, 0)
      non_shared == Len(key) - shared
  IN [buffer |-> b.buffer \o EncodeVarint32(shared) \o EncodeVarint32(non_shared)
                   \o EncodeVarint32(Len(value))
                   \o SubSeq(key, shared + 1, Len(key)) \o value,
      restarts |-> IF restart THEN Append(b.restarts, Len(b.buffer)) ELSE b.restarts,
      counter |-> (IF restart THEN 0 ELSE b.counter) + 1,
      last_key |-> key]

RECURSIVE BuilderAddAll(_, _, _, _)
BuilderAddAll(b, interval, entries, i) ==
  IF i > Len(entries) THEN b
  ELSE BuilderAddAll(BuilderAdd(b, interval, entries[i].key, entries[i].value),
                     interval, entries, i + 1)

RECURSIVE PutFixed32All(_, _)
PutFixed32All(vs, i) ==
  IF i > Len(vs) THEN << >> ELSE Fixed32(vs[i]) \o PutFixed32All(vs, i + 1)

\* BlockBuilder::Finish on the builder state after every Add.
BuildBlock(entries, interval) ==
  LET b == BuilderAddAll([buffer |-> << >>, restarts |-> << 0 >>, counter |-> 0,
                          last_key |-> << >>], interval, entries, 1)
  IN b.buffer \o PutFixed32All(b.restarts, 1) \o Fixed32(Len(b.restarts))

\* ------------------------------------------------------------ input sets
KeyBytes == {0, 1}

RECURSIVE SeqsOfLen(_, _)
SeqsOfLen(S, n) ==
  IF n = 0 THEN {<< >>}
  ELSE {Append(s, x) : s \in SeqsOfLen(S, n - 1), x \in S}

SeqsUpTo(S, n) == UNION {SeqsOfLen(S, k) : k \in 0..n}

Keys == SeqsUpTo(KeyBytes, MaxKeyLen)

\* A key greater than every key of Keys.
BeyondKey == << 2 >>

Targets == Keys \cup {BeyondKey}

\* Strictly ascending key lists of length n.
AscendingLists(n) ==
  {l \in SeqsOfLen(Keys, n) : \A i \in 1..(n - 1) : Compare(l[i], l[i + 1]) < 0}

KeyLists == UNION {AscendingLists(n) : n \in 0..MaxEntries}

\* The value stored with the i-th entry: lengths 1, 2, 0, 1, ... and
\* contents that differ from entry to entry.
ValueFor(i) == [j \in 1..(i % 3) |-> 100 + i]

EntriesFor(ks) == [i \in 1..Len(ks) |-> [key |-> ks[i], value |-> ValueFor(i)]]

\* Arbitrary buffers: an entry region assembled from byte pieces, followed by
\* a restart array and a count field that need not fit it.
VarMax == << 255, 255, 255, 255, 15 >>

Pieces == {<< 0 >>, << 1 >>, VarMax}

RECURSIVE Flatten(_, _)
Flatten(ss, i) == IF i > Len(ss) THEN << >> ELSE ss[i] \o Flatten(ss, i + 1)

EntryRegions == {Flatten(ps, 1) : ps \in SeqsUpTo(Pieces, MaxPieces)}

\* Restart array words: offsets 0 and 3, and 0xffffffff.
RestartWords == {Fixed32(0), Fixed32(3), << 255, 255, 255, 255 >>}

RestartArrays == {Flatten(ws, 1) : ws \in SeqsUpTo(RestartWords, MaxRestarts)}

ShortBuffers == {<< >>, << 0 >>, << 1, 0 >>, << 1, 0, 0 >>}

AnyBuffers ==
  ShortBuffers \cup
  {r \o rs \o Fixed32(n) :
     r \in EntryRegions, rs \in RestartArrays, n \in 0..(MaxRestarts + 1)}

\* ------------------------------------------------------------------ state
VARIABLES
  data,            \* BlockContents::data, the bytes handed to Block::Block
  entries,         \* the (key, value) list the encoder was given; << >> if none
  size_,           \* Block::size_
  restart_offset_, \* Block::restart_offset_
  iter,            \* which iterator NewIterator returned: none, live, error, empty
  current_,        \* Iter::current_
  restart_index_,  \* Iter::restart_index_
  key_,            \* Iter::key_
  value_,          \* Iter::value_ as [off, size], off relative to data_
  status_,         \* Iter::status_ (or the status of the error iterator)
  oob,             \* a byte outside [0, restarts_) has been examined
  ub,              \* a byte outside the buffer has been examined
  lastOp,          \* the last operation applied [name, target, again, undo,
                   \* first]; again marks a Seek that repeats the Seek just
                   \* before it, undo a Prev just after a Next or a Next just
                   \* after a Prev, first the first operation on the iterator
  scan,            \* the entries visited by the scan under way [dir, seen]
  trace,           \* what the last operation did: the offsets it parsed, the
                   \* restart entries its binary search decoded, ...
  before,          \* the entry the cursor was on before the last Next or Prev
  decoded          \* the last DecodeEntry application [p, limit, result]

vars == << data, entries, size_, restart_offset_, iter, current_, restart_index_,
           key_, value_, status_, oob, ub, lastOp, scan, trace, before, decoded >>

\* ------------------------------------------------------------ Block::Block
\* restart_offset_ is left unset by the constructor on the error paths.
Unset == -1

\* Block::NumRestarts, as a pair.
NumRestarts(buf, size) == DecodeFixed32(buf, size - 4)

\* BlockWith with the count word left out of max_restarts_allowed.
BlockWithLooseLimit(len, n) ==
  IF WLess(W(len \div 4), n)
  THEN [size |-> 0, restart_offset |-> Unset]
  ELSE [size |-> len, restart_offset |-> len - (1 + ToInt(n)) * 4]

\* The second half of the constructor, for the restart count n it read.
BlockWith(len, n) ==
  IF WLess(W((len - 4) \div 4), n)
  THEN [size |-> 0, restart_offset |-> Unset]
  ELSE [size |-> len, restart_offset |-> len - (1 + ToInt(n)) * 4]

BlockOf(buf) ==
  IF Len(buf) < 4
  THEN [size |-> 0, restart_offset |-> Unset]
  ELSE BlockWith(Len(buf), NumRestarts(buf, Len(buf)))

\* ------------------------------------------------------------ Block::Iter
\* Only a block that passed the constructor's checks gets a live iterator,
\* so restarts_ and num_restarts_ are bounded by the buffer size.
restarts_ == restart_offset_

num_restarts_ == ToInt(NumRestarts(data, size_))

\* A Slice that does not point into the block: Slice() and Slice::clear().
NoData == << -1, 0 >>

EmptySlice == [off |-> NoData, size |-> W(0)]

\* What one operation does, recorded as it runs:
\*   parsed  the offsets at which ParseNextKey called DecodeEntry, in order
\*   probed  the restart offsets whose entries the binary search decoded
\*   bad     the binary search rejected a restart entry
\*   left    the restart index the binary search of Seek resolved to, or the
\*           backward walk of Prev stopped at (-1: none)
\*   afail   an assert of the code was violated
NoTrace ==
  [parsed |-> << >>, probed |-> << >>, bad |-> FALSE, left |-> -1, afail |-> FALSE]

\* The iterator at the start of an operation.
Cursor ==
  [current |-> current_, restart_index |-> restart_index_, key |-> key_,
   value |-> value_, status |-> status_, oob |-> oob, ub |-> ub,
   trace |-> NoTrace]

Valid(it) == it.current < restarts_

\* (value_.data() + value_.size()) - data_, truncated to uint32_t.
NextEntryOffset(it) == WMod32(WAdd(it.value.off, it.value.size))

GetRestartPoint(index) == DecodeFixed32(data, restarts_ + index * 4)

\* assert(index < num_restarts_) in GetRestartPoint.
InRange(index) == 0 <= index /\ index < num_restarts_

\* SeekToRestartPoint that starts the new position with a clean status.
SeekToRestartPointResetsStatus(it, index) ==
  IF ~ InRange(index)
  THEN [it EXCEPT !.key = << >>, !.restart_index = index, !.trace.afail = TRUE]
  ELSE [it EXCEPT !.key = << >>,
                  !.restart_index = index,
                  !.status = "ok",
                  !.value = [off |-> GetRestartPoint(index), size |-> W(0)]]

SeekToRestartPoint(it, index) ==
  IF ~ InRange(index)
  THEN [it EXCEPT !.key = << >>, !.restart_index = index, !.trace.afail = TRUE]
  ELSE [it EXCEPT !.key = << >>,
                  !.restart_index = index,
                  !.value = [off |-> GetRestartPoint(index), size |-> W(0)]]

\* CorruptionError that leaves current_ where the bad entry was found.
CorruptionErrorKeepsPosition(it) ==
  [it EXCEPT !.restart_index = num_restarts_,
             !.status = "bad entry in block",
             !.key = << >>,
             !.value = EmptySlice]

CorruptionError(it) ==
  [it EXCEPT !.current = restarts_,
             !.restart_index = num_restarts_,
             !.status = "bad entry in block",
             !.key = << >>,
             !.value = EmptySlice]

\* The loop at the end of ParseNextKey.
RECURSIVE AdvanceRestartIndex(_, _)
AdvanceRestartIndex(index, current) ==
  IF index + 1 < num_restarts_ /\ WLess(GetRestartPoint(index + 1), W(current))
  THEN AdvanceRestartIndex(index + 1, current)
  ELSE index

\* StoreEntry that appends the key delta without first cutting key_ down to
\* the shared prefix.
StoreEntryNoResize(it, cur, d, keyEnd) ==
  [it |-> [it EXCEPT !.current = cur,
                     !.key = it.key \o Bytes(data, d.p, ToInt(d.non_shared)),
                     !.value = [off |-> keyEnd, size |-> d.value_length],
                     !.restart_index = AdvanceRestartIndex(it.restart_index, cur),
                     !.oob = it.oob \/ WLess(W(restarts_), keyEnd)],
   ok |-> TRUE]

\* ParseNextKey, in the order of the code.  Every step yields [it, ok].
\*
\* StoreEntry: the else branch, for the decoded entry d at offset cur whose
\* key delta ends at keyEnd.  A key delta that runs past the start of the
\* restart array is read all the same (oob); one that runs past the buffer
\* has no defined content: the cursor is left with the bytes that exist
\* and ub is set.
StoreEntry(it, cur, d, keyEnd) ==
  IF WLess(W(Len(data)), keyEnd)
  THEN [it |-> [it EXCEPT !.current = cur,
                          !.key = SubSeq(it.key, 1, ToInt(d.shared))
                                    \o Bytes(data, d.p, Len(data) - d.p),
                          !.value = [off |-> keyEnd, size |-> d.value_length],
                          !.oob = TRUE, !.ub = TRUE],
        ok |-> FALSE]
  ELSE [it |-> [it EXCEPT !.current = cur,
                          !.key = SubSeq(it.key, 1, ToInt(d.shared))
                                    \o Bytes(data, d.p, ToInt(d.non_shared)),
                          !.value = [off |-> keyEnd, size |-> d.value_length],
                          !.restart_index = AdvanceRestartIndex(it.restart_index, cur),
                          !.oob = it.oob \/ WLess(W(restarts_), keyEnd)],
        ok |-> TRUE]

\* ParseEntry that rejects an entry sharing the whole of the previous key.
ParseEntryStrictShared(it, cur, d) ==
  IF ~ d.ok \/ WLeq(W(Len(it.key)), d.shared)
  THEN [it |-> CorruptionError([it EXCEPT !.current = cur]), ok |-> FALSE]
  ELSE StoreEntry(it, cur, d, WAdd(W(d.p), d.non_shared))

\* The test on the result d of DecodeEntry.
ParseEntry(it, cur, d) ==
  IF ~ d.ok \/ WLess(W(Len(it.key)), d.shared)
  THEN [it |-> CorruptionError([it EXCEPT !.current = cur]), ok |-> FALSE]
  ELSE StoreEntry(it, cur, d, WAdd(W(d.p), d.non_shared))

\* ParseAt that leaves restart_index_ alone at the end of the entries.
ParseAtKeepsIndex(it, next) ==
  IF ~ WLess(next, W(restarts_))
  THEN [it |-> [it EXCEPT !.current = restarts_], ok |-> FALSE]
  ELSE ParseEntry([it EXCEPT !.trace.parsed = Append(@, ToInt(next))],
                  ToInt(next), DecodeEntry(data, next, restarts_))

\* The test p >= limit on next = NextEntryOffset().
ParseAt(it, next) ==
  IF ~ WLess(next, W(restarts_))
  THEN [it |-> [it EXCEPT !.current = restarts_, !.restart_index = num_restarts_],
        ok |-> FALSE]
  ELSE ParseEntry([it EXCEPT !.trace.parsed = Append(@, ToInt(next))],
                  ToInt(next), DecodeEntry(data, next, restarts_))

\* NextEntryOffset of a Slice that is not in the block is no offset at all.
ParseNextKey(it) ==
  IF it.trace.afail THEN [it |-> it, ok |-> FALSE]
  ELSE IF it.value.off = NoData
  THEN [it |-> [it EXCEPT !.oob = TRUE, !.ub = TRUE], ok |-> FALSE]
  ELSE ParseAt(it, NextEntryOffset(it))

Next(it) == ParseNextKey(it).it

\* PrevRestart that stops at a restart point equal to original.
RECURSIVE PrevRestartStrict(_, _)
PrevRestartStrict(index, original) ==
  IF WLess(W(original), GetRestartPoint(index))
  THEN (IF index = 0 THEN -1 ELSE PrevRestartStrict(index - 1, original))
  ELSE index

\* The backward walk over the restart array in Prev; -1 when index 0 is
\* reached without finding a restart point before original.
RECURSIVE PrevRestart(_, _)
PrevRestart(index, original) ==
  IF ~ WLess(GetRestartPoint(index), W(original))
  THEN (IF index = 0 THEN -1 ELSE PrevRestart(index - 1, original))
  ELSE index

\* ParseWhileBefore that also parses the entry starting at bound.
RECURSIVE ParseWhileBeforeInclusive(_, _)
ParseWhileBeforeInclusive(r, bound) ==
  IF r.ok /\ WLeq(NextEntryOffset(r.it), W(bound))
  THEN ParseWhileBeforeInclusive(ParseNextKey(r.it), bound)
  ELSE r.it

\* do { } while (ParseNextKey() && NextEntryOffset() < bound): r is the
\* result of the ParseNextKey just made.
RECURSIVE ParseWhileBefore(_, _)
ParseWhileBefore(r, bound) ==
  IF r.ok /\ WLess(NextEntryOffset(r.it), W(bound))
  THEN ParseWhileBefore(ParseNextKey(r.it), bound)
  ELSE r.it

\* Prev after the backward walk ended at index.
PrevFrom(it, index) ==
  IF index = -1
  THEN [it EXCEPT !.current = restarts_, !.restart_index = num_restarts_]
  ELSE ParseWhileBefore(ParseNextKey(SeekToRestartPoint([it EXCEPT !.trace.left = index],
                                                        index)), it.current)

Prev(it) ==
  IF ~ InRange(it.restart_index)
  THEN [it EXCEPT !.trace.afail = TRUE]
  ELSE PrevFrom(it, PrevRestart(it.restart_index, it.current))

SeekToFirst(it) == ParseNextKey(SeekToRestartPoint(it, 0)).it

SeekToLast(it) ==
  ParseWhileBefore(ParseNextKey(SeekToRestartPoint(it, num_restarts_ - 1)), restarts_)

\* memcmp result c of the common length, then the lengths n and |target|.
CompareLengths(c, n, target) ==
  IF c # 0 THEN c
  ELSE IF WLess(n, W(Len(target))) THEN -1
  ELSE IF WLess(W(Len(target)), n) THEN 1
  ELSE 0

\* min(n, |target|): the number of bytes the comparator examines.
CommonLength(n, target) ==
  IF WLess(n, W(Len(target))) THEN ToInt(n) ELSE Len(target)

\* Compare(mid_key, target) for mid_key = Slice(data_ + p, n), whose first
\* m = min(n, |target|) bytes are in the buffer.
CompareSlice(p, n, m, target) ==
  CompareLengths(Compare(Bytes(data, p, m), SubSeq(target, 1, m)), n, target)

\* The binary search of Seek.  Result [left, corrupt, oob, ub, probed,
\* afail]; ps are the restart offsets decoded so far.
\* BinaryStep: the body of the loop for the decoded restart entry d.
RECURSIVE BinarySearch(_, _, _, _, _)
\* BinaryStep that accepts a restart entry whatever its shared length.
BinaryStepIgnoresShared(left, right, mid, target, sawOob, ps, d, m) ==
  IF ~ d.ok
  THEN [left |-> left, corrupt |-> TRUE, oob |-> sawOob, ub |-> FALSE,
        probed |-> ps, afail |-> FALSE]
  ELSE IF d.p + m > Len(data)
  THEN [left |-> left, corrupt |-> FALSE, oob |-> TRUE, ub |-> TRUE,
        probed |-> ps, afail |-> FALSE]
  ELSE IF CompareSlice(d.p, d.non_shared, m, target) < 0
  THEN BinarySearch(mid, right, target, sawOob \/ d.p + m > restarts_, ps)
  ELSE BinarySearch(left, mid - 1, target, sawOob \/ d.p + m > restarts_, ps)

BinaryStep(left, right, mid, target, sawOob, ps, d, m) ==
  IF ~ d.ok \/ d.shared # W(0)
  THEN [left |-> left, corrupt |-> TRUE, oob |-> sawOob, ub |-> FALSE,
        probed |-> ps, afail |-> FALSE]
  ELSE IF d.p + m > Len(data)
  THEN [left |-> left, corrupt |-> FALSE, oob |-> TRUE, ub |-> TRUE,
        probed |-> ps, afail |-> FALSE]
  ELSE IF CompareSlice(d.p, d.non_shared, m, target) < 0
  THEN BinarySearch(mid, right, target, sawOob \/ d.p + m > restarts_, ps)
  ELSE BinarySearch(left, mid - 1, target, sawOob \/ d.p + m > restarts_, ps)

BinaryProbe(left, right, mid, target, sawOob, ps, d) ==
  BinaryStep(left, right, mid, target, sawOob, ps, d, CommonLength(d.non_shared, target))

\* region_offset is the restart point of mid.
BinaryAt(left, right, mid, target, sawOob, ps, region_offset) ==
  BinaryProbe(left, right, mid, target, sawOob, Append(ps, region_offset),
              DecodeEntry(data, region_offset, restarts_))

BinarySearch(left, right, target, sawOob, ps) ==
  IF ~ (left < right)
  THEN [left |-> left, corrupt |-> FALSE, oob |-> sawOob, ub |-> FALSE,
        probed |-> ps, afail |-> FALSE]
  ELSE IF ~ InRange((left + right + 1) \div 2)
  THEN [left |-> left, corrupt |-> FALSE, oob |-> sawOob, ub |-> FALSE,
        probed |-> ps, afail |-> TRUE]
  ELSE BinaryAt(left, right, (left + right + 1) \div 2, target, sawOob, ps,
                GetRestartPoint((left + right + 1) \div 2))

\* LinearSearch that passes over a key equal to target.
RECURSIVE LinearSearchStrict(_, _)
LinearSearchStrict(r, target) ==
  IF ~ r.ok THEN r.it
  ELSE IF Compare(r.it.key, target) > 0 THEN r.it
  ELSE LinearSearchStrict(ParseNextKey(r.it), target)

\* The linear phase of Seek: r is the result of the ParseNextKey just made.
RECURSIVE LinearSearch(_, _)
LinearSearch(r, target) ==
  IF ~ r.ok THEN r.it
  ELSE IF Compare(r.it.key, target) >= 0 THEN r.it
  ELSE LinearSearch(ParseNextKey(r.it), target)

\* The iterator after the binary search returned b: what the search did is
\* recorded, with assert(current_key_compare == 0 || Valid()).
Searched(it, current_key_compare, b) ==
  [it EXCEPT !.oob = it.oob \/ b.oob,
             !.trace.probed = b.probed,
             !.trace.bad = b.corrupt,
             !.trace.left = IF b.corrupt THEN -1 ELSE b.left,
             !.trace.afail = b.afail \/ (~ b.corrupt /\ current_key_compare # 0
                                                    /\ ~ Valid(it))]

\* SeekFrom that keeps the current position whenever the search resolves to
\* the current restart region, whatever current_key_compare is.
SeekFromKeepsPosition(it, target, current_key_compare, b) ==
  IF b.ub THEN [it EXCEPT !.oob = TRUE, !.ub = TRUE]
  ELSE IF b.corrupt THEN CorruptionError(Searched(it, current_key_compare, b))
  ELSE IF b.left = it.restart_index
  THEN LinearSearch(ParseNextKey(Searched(it, current_key_compare, b)), target)
  ELSE LinearSearch(ParseNextKey(SeekToRestartPoint(Searched(it, current_key_compare, b),
                                                    b.left)), target)

\* Seek after the binary search returned b.
SeekFrom(it, target, current_key_compare, b) ==
  IF b.ub THEN [it EXCEPT !.oob = TRUE, !.ub = TRUE]
  ELSE IF b.corrupt THEN CorruptionError(Searched(it, current_key_compare, b))
  ELSE IF b.afail THEN Searched(it, current_key_compare, b)
  ELSE IF b.left = it.restart_index /\ current_key_compare < 0
  THEN LinearSearch(ParseNextKey(Searched(it, current_key_compare, b)), target)
  ELSE LinearSearch(ParseNextKey(SeekToRestartPoint(Searched(it, current_key_compare, b),
                                                    b.left)), target)

\* SeekWith without the binary search: the scan starts at restart point 0,
\* or at the current entry when its key is below target.
SeekWithLinearOnly(it, target, current_key_compare) ==
  IF Valid(it) /\ current_key_compare = 0
  THEN it
  ELSE SeekFrom(it, target, current_key_compare,
                BinarySearch(IF current_key_compare < 0 THEN it.restart_index ELSE 0,
                             IF current_key_compare < 0 THEN it.restart_index ELSE 0,
                             target, FALSE, << >>))

\* SeekWith without the early return for a key equal to target.
SeekWithNoShortcut(it, target, current_key_compare) ==
  SeekFrom(it, target, current_key_compare,
           BinarySearch(IF current_key_compare < 0 THEN it.restart_index ELSE 0,
                        IF current_key_compare > 0 THEN it.restart_index
                        ELSE num_restarts_ - 1,
                        target, FALSE, << >>))

\* Seek once current_key_compare is known (0 if the iterator is not Valid).
SeekWith(it, target, current_key_compare) ==
  IF Valid(it) /\ current_key_compare = 0
  THEN it
  ELSE SeekFrom(it, target, current_key_compare,
                BinarySearch(IF current_key_compare < 0 THEN it.restart_index ELSE 0,
                             IF current_key_compare > 0 THEN it.restart_index
                             ELSE num_restarts_ - 1,
                             target, FALSE, << >>))

Seek(it, target) ==
  SeekWith(it, target, IF Valid(it) THEN Compare(it.key, target) ELSE 0)

\* ------------------------------------------------------ Block::NewIterator
\* The cursor a live iterator is constructed with.
\* NewIter with the parse cursor placed at restart point 0.
NewIterPositioned ==
  [current |-> restarts_, restart_index |-> num_restarts_, key |-> << >>,
   value |-> [off |-> GetRestartPoint(0), size |-> W(0)], status |-> "ok",
   oob |-> FALSE, ub |-> FALSE, trace |-> NoTrace]

NewIter ==
  [current |-> restarts_, restart_index |-> num_restarts_, key |-> << >>,
   value |-> EmptySlice, status |-> "ok", oob |-> FALSE, ub |-> FALSE,
   trace |-> NoTrace]

\* The error and the empty iterator have no cursor: Valid() is false, every
\* positioning call is a no-op and status() is the status they were given.
NoCursor(status) ==
  [current |-> 0, restart_index |-> 0, key |-> << >>, value |-> EmptySlice,
   status |-> status, oob |-> FALSE, ub |-> FALSE, trace |-> NoTrace]

\* NewIterator without the test for a count of 0.
IterKindNoEmpty ==
  IF size_ < 4 THEN "error"
  ELSE "live"

IterKind ==
  IF size_ < 4 THEN "error"
  ELSE IF num_restarts_ = 0 THEN "empty"
  ELSE "live"

\* Iterator::Valid() of whichever iterator was returned.
IsValid == iter = "live" /\ current_ < restarts_

\* ---------------------------------------------------------------- actions
\* The entry the cursor is on: current_, key() and value().
Entry == [current |-> current_, key |-> key_, value |-> value_]

NoEntry == [current |-> -1, key |-> << >>, value |-> EmptySlice]

SetCursor(it) ==
  /\ current_' = it.current
  /\ restart_index_' = it.restart_index
  /\ value_' = it.value
  /\ status_' = it.status
  /\ oob' = it.oob
  /\ ub' = it.ub
  /\ trace' = it.trace

\* What a read past the end of the buffer may have appended to key_.
Garbage == {<< >>, << 0 >>, << 255 >>}

NoScan == [dir |-> "none", seen |-> << >>]

\* seen, with the entry the cursor it is on, if it is on one.
Visit(seen, it) ==
  IF iter = "live" /\ Valid(it)
  THEN Append(seen, [key |-> it.key, value |-> it.value])
  ELSE seen

\* A forward scan is SeekToFirst and the Next calls that follow it; a
\* backward scan is SeekToLast and the Prev calls that follow it.
ScanAfter(it, name) ==
  IF name = "SeekToFirst" THEN [dir |-> "fwd", seen |-> Visit(<< >>, it)]
  ELSE IF name = "SeekToLast" THEN [dir |-> "bwd", seen |-> Visit(<< >>, it)]
  ELSE IF name = "Next" /\ scan.dir = "fwd" THEN [dir |-> "fwd", seen |-> Visit(scan.seen, it)]
  ELSE IF name = "Prev" /\ scan.dir = "bwd" THEN [dir |-> "bwd", seen |-> Visit(scan.seen, it)]
  ELSE NoScan

\* The state after the operation name(target), which leaves the cursor it.
Apply(it, name, target) ==
  /\ SetCursor(it)
  /\ IF it.ub
     THEN \E g \in Garbage : key_' = it.key \o g
     ELSE key_' = it.key
  /\ lastOp' = [name |-> name, target |-> target,
                again |-> name = "Seek" /\ lastOp.name = "Seek" /\ lastOp.target = target,
                undo |-> \/ name = "Prev" /\ lastOp.name = "Next"
                         \/ name = "Next" /\ lastOp.name = "Prev",
                first |-> lastOp.name = "NewIterator"]
  /\ scan' = ScanAfter(it, name)
  /\ before' = IF name \in {"Next", "Prev"} THEN Entry ELSE NoEntry
  /\ UNCHANGED << data, entries, size_, restart_offset_, iter, decoded >>

NoOp ==
  [name |-> "none", target |-> << >>, again |-> FALSE, undo |-> FALSE, first |-> FALSE]

InitBlock(buf, es) ==
  /\ data = buf
  /\ entries = es
  /\ size_ = BlockOf(buf).size
  /\ restart_offset_ = BlockOf(buf).restart_offset
  /\ iter = "none"
  /\ current_ = 0
  /\ restart_index_ = 0
  /\ key_ = << >>
  /\ value_ = EmptySlice
  /\ status_ = "ok"
  /\ oob = FALSE
  /\ ub = FALSE
  /\ lastOp = NoOp
  /\ scan = NoScan
  /\ trace = NoTrace
  /\ before = NoEntry
  /\ decoded = [p |-> 0, limit |-> 0, result |-> DecodeFail]

\* A block built by the encoder from a strictly ascending key list.
Init ==
  \E ks \in KeyLists, interval \in 1..MaxInterval :
     InitBlock(BuildBlock(EntriesFor(ks), interval), EntriesFor(ks))

\* Any buffer.
InitAny == \E buf \in AnyBuffers : InitBlock(buf, << >>)

NewIterator ==
  /\ iter = "none"
  /\ iter' = IterKind
  /\ SetCursor(IF IterKind = "live" THEN NewIter
               ELSE IF IterKind = "error" THEN NoCursor("bad block contents")
               ELSE NoCursor("ok"))
  /\ key_' = << >>
  /\ lastOp' = [name |-> "NewIterator", target |-> << >>, again |-> FALSE,
                undo |-> FALSE, first |-> FALSE]
  /\ UNCHANGED << data, entries, size_, restart_offset_, scan, before, decoded >>

\* An operation can be applied: an iterator exists and its state is defined.
Usable == iter # "none" /\ ~ ub

DoSeekToFirst ==
  /\ Usable
  /\ Apply(IF iter = "live" THEN SeekToFirst(Cursor) ELSE Cursor,
           "SeekToFirst", << >>)

DoSeekToLast ==
  /\ Usable
  /\ Apply(IF iter = "live" THEN SeekToLast(Cursor) ELSE Cursor,
           "SeekToLast", << >>)

DoSeek ==
  /\ Usable
  /\ \E target \in Targets :
       Apply(IF iter = "live" THEN Seek(Cursor, target) ELSE Cursor,
             "Seek", target)

\* Next and Prev require Valid().
DoNext ==
  /\ Usable
  /\ IsValid
  /\ Apply(Next(Cursor), "Next", << >>)

DoPrev ==
  /\ Usable
  /\ IsValid
  /\ Apply(Prev(Cursor), "Prev", << >>)

Step ==
  \/ NewIterator
  \/ DoSeekToFirst
  \/ DoSeekToLast
  \/ DoSeek
  \/ DoNext
  \/ DoPrev

Spec == Init /\ [][Step]_vars

SpecAny == InitAny /\ [][Step]_vars

\* DecodeEntry on its own: any byte range, any p <= limit inside it.
InitDecode == \E buf \in EntryRegions : InitBlock(buf, << >>)

DecodeStep ==
  /\ \E limit \in 0..Len(data) : \E p \in 0..limit :
       decoded' = [p |-> p, limit |-> limit, result |-> DecodeEntry(data, W(p), limit)]
  /\ UNCHANGED << data, entries, size_, restart_offset_, iter, current_, restart_index_,
                  key_, value_, status_, oob, ub, lastOp, scan, trace, before >>

SpecDecode == InitDecode /\ [][DecodeStep]_vars

\* ======================================================================
\* Properties
\* ======================================================================
\* The bytes of a Slice that lies inside the buffer.
SliceBytes(v) == Bytes(data, ToInt(v.off), ToInt(v.size))

NumEntries == Len(entries)

\* The cursor is Valid and shows the i-th pair given to the encoder.
AtEntry(i) ==
  /\ IsValid
  /\ key_ = entries[i].key
  /\ SliceBytes(value_) = entries[i].value

\* Index of the first entry whose key is >= target; NumEntries + 1 if none.
RECURSIVE LowerBoundFrom(_, _)
LowerBoundFrom(i, target) ==
  IF i > NumEntries \/ Compare(entries[i].key, target) >= 0 THEN i
  ELSE LowerBoundFrom(i + 1, target)

LowerBound(target) == LowerBoundFrom(1, target)

\* What a caller can observe of the iterator.
Observed ==
  [valid |-> IsValid,
   key |-> IF IsValid THEN key_ ELSE << >>,
   value |-> IF IsValid THEN value_ ELSE EmptySlice,
   status |-> status_]

\* C1: on a well-formed block, whatever the position before the call,
\* Seek(target) leaves the iterator on the first entry whose key is
\* >= target, or Invalid with status ok when there is no such entry.
C1_SeekFindsLowerBound ==
  lastOp.name = "Seek" =>
    IF LowerBound(lastOp.target) <= NumEntries
    THEN AtEntry(LowerBound(lastOp.target))
    ELSE ~ IsValid /\ status_ = "ok"

\* A Seek ended on a key greater than an absent target, in a restart region
\* other than the first.
C1_Witness ==
  /\ lastOp.name = "Seek"
  /\ IsValid
  /\ Compare(key_, lastOp.target) > 0
  /\ restart_index_ > 0
  /\ NumEntries = MaxEntries

\* C2: on a well-formed block, SeekToFirst and the Next calls after it visit
\* the encoder's (key, value) pairs in order, one entry per call, and the
\* scan ends Invalid with status ok only when every entry has been visited.
C2_ForwardScanYieldsEntries ==
  scan.dir = "fwd" =>
    /\ Len(scan.seen) <= NumEntries
    /\ \A i \in 1..Len(scan.seen) :
         /\ scan.seen[i].key = entries[i].key
         /\ SliceBytes(scan.seen[i].value) = entries[i].value
    /\ IsValid => AtEntry(Len(scan.seen))
    /\ ~ IsValid => Len(scan.seen) = NumEntries /\ status_ = "ok"

\* A forward scan over a block of MaxEntries entries has run off the end.
C2_Witness ==
  /\ scan.dir = "fwd"
  /\ lastOp.name = "Next"
  /\ ~ IsValid
  /\ Len(scan.seen) = MaxEntries

\* C3: on a well-formed block, SeekToLast and the Prev calls after it visit
\* the encoder's pairs in reverse order, one entry per call, and the scan
\* ends Invalid with status ok only when every entry has been visited.
C3_BackwardScanReversesEntries ==
  scan.dir = "bwd" =>
    /\ Len(scan.seen) <= NumEntries
    /\ \A i \in 1..Len(scan.seen) :
         /\ scan.seen[i].key = entries[NumEntries + 1 - i].key
         /\ SliceBytes(scan.seen[i].value) = entries[NumEntries + 1 - i].value
    /\ IsValid => AtEntry(NumEntries + 1 - Len(scan.seen))
    /\ ~ IsValid => Len(scan.seen) = NumEntries /\ status_ = "ok"

\* A backward scan over a block of MaxEntries entries has run off the front.
C3_Witness ==
  /\ scan.dir = "bwd"
  /\ lastOp.name = "Prev"
  /\ ~ IsValid
  /\ Len(scan.seen) = MaxEntries

\* C4: on any accepted buffer no byte outside [0, restarts_) is examined,
\* and while the iterator is Valid the key delta and the value of the
\* current entry lie inside [current_, restarts_).
C4_NoReadOutOfBounds ==
  iter = "live" =>
    /\ ~ oob
    /\ IsValid => /\ WLeq(W(current_), value_.off)
                  /\ WLeq(WAdd(value_.off, value_.size), W(restarts_))

\* C5 as stated: the iterator is never Valid while its status is Corruption.
C5_CorruptionIsTerminal == status_ # "ok" => ~ IsValid

\* C5 amended: the operation that turns the status into Corruption leaves
\* the iterator Invalid, parked at restarts_ with key and value cleared.
C5_CorruptionInvalidates ==
  [][(iter = "live" /\ status_ = "ok" /\ status_' # "ok") =>
       /\ ~ IsValid'
       /\ current_' = restarts_
       /\ restart_index_' = num_restarts_
       /\ key_' = << >>
       /\ value_' = EmptySlice]_vars

\* A Next from a Valid entry hit a corrupt entry.
C5_Witness ==
  /\ iter = "live"
  /\ lastOp.name = "Next"
  /\ status_ = "bad entry in block"
  /\ ~ IsValid

\* C6: a buffer shorter than 4 bytes, or whose count exceeds
\* (size - 4) / 4, has logical size 0 and no restart offset, and its iterator
\* is the error iterator: never Valid, status Corruption.  Any other buffer
\* keeps its size, with restart_offset_ = size - (num_restarts + 1) * 4 >= 0.
StructurallyInvalid ==
  \/ Len(data) < 4
  \/ WLess(W((Len(data) - 4) \div 4), DecodeFixed32(data, Len(data) - 4))

C6_InvalidBlockIsError ==
  IF StructurallyInvalid
  THEN /\ size_ = 0
       /\ restart_offset_ = Unset
       /\ iter # "none" => iter = "error" /\ ~ IsValid /\ status_ = "bad block contents"
  ELSE /\ size_ = Len(data)
       /\ restart_offset_ = size_ - (ToInt(DecodeFixed32(data, size_ - 4)) + 1) * 4
       /\ ToInt(DecodeFixed32(data, size_ - 4)) * 4 + 4 <= size_
       /\ iter # "error"

\* A Seek has been made on the iterator of a buffer whose count is too big.
C6_Witness ==
  /\ Len(data) >= 4
  /\ StructurallyInvalid
  /\ iter = "error"
  /\ lastOp.name = "Seek"

\* C7: on a well-formed block the status is ok in every state, and Next on
\* the last entry leaves the iterator Invalid.
C7_NoCorruptionOnWellFormed ==
  [][/\ status_' = "ok"
     /\ (lastOp'.name = "Next" /\ NumEntries > 0 /\ AtEntry(NumEntries)) => ~ IsValid']_vars

\* Next has been called on the last of several entries.
C7_Witness ==
  /\ lastOp.name = "Next"
  /\ ~ IsValid
  /\ status_ = "ok"
  /\ NumEntries > 1
  /\ scan.dir = "none"

\* C8: a Seek that repeats the Seek just before it changes nothing a caller
\* can observe.
C8_SeekIdempotent ==
  [][lastOp'.again => Observed' = Observed]_vars

\* A repeated Seek whose target is absent: the iterator is on a greater key.
C8_Witness ==
  /\ lastOp.again
  /\ IsValid
  /\ Compare(key_, lastOp.target) > 0

\* C9: an accepted buffer whose count is 0 gets the empty iterator: never
\* Valid, status ok.
C9_NoRestartsIsEmpty ==
  (iter # "none" /\ size_ >= 4 /\ DecodeFixed32(data, size_ - 4) = W(0)) =>
    iter = "empty" /\ ~ IsValid /\ status_ = "ok"

\* A Seek has been made on the iterator of a buffer that has entry bytes but
\* a count of 0.
C9_Witness ==
  /\ iter = "empty"
  /\ Len(data) > 4
  /\ lastOp.name = "Seek"

\* C10: DecodeEntry fails whenever the true sum non_shared + value_length
\* exceeds the bytes left between the end of the header and limit.
C10_DecodeRejectsOverrun ==
  decoded.result.ok =>
    WLeq(WAdd(decoded.result.non_shared, decoded.result.value_length),
         W(decoded.limit - decoded.result.p))

\* C11: on a well-formed block, whenever the iterator is Valid,
\* restart_index_ is the index of the restart region current_ falls in:
\* restart[restart_index_] <= current_, and restart_index_ is the last index
\* or current_ < restart[restart_index_ + 1].
C11_RestartIndexIsRegion ==
  IsValid =>
    /\ InRange(restart_index_)
    /\ WLeq(GetRestartPoint(restart_index_), W(current_))
    /\ \/ restart_index_ = num_restarts_ - 1
       \/ WLess(W(current_), GetRestartPoint(restart_index_ + 1))

\* C12: on a well-formed block, a Prev that follows a Next (which left the
\* iterator Valid) returns to the entry the iterator was on before the Next,
\* and a Next that follows a Prev returns to the entry it was on before the
\* Prev: same offset, key and value.
C12_NextPrevInverse ==
  [][lastOp'.undo => IsValid' /\ Entry' = before]_vars

\* A Next stepped exactly onto a restart point and the Prev after it went
\* back.
C12_Witness ==
  /\ lastOp.undo
  /\ lastOp.name = "Prev"
  /\ IsValid
  /\ \E k \in 1..(num_restarts_ - 1) : GetRestartPoint(k) = W(before.current)

\* C13: on any buffer, once the status of the block iterator is Corruption
\* no operation changes it: it is never reset to ok, not even by a
\* positioning call that parses an intact entry.
C13_CorruptionPersists ==
  [][(iter = "live" /\ status_ # "ok") => status_' = status_]_vars

\* After a Corruption, SeekToFirst has parsed an intact first entry: the
\* iterator is Valid and the status is still Corruption.
C13_Witness ==
  /\ iter = "live"
  /\ lastOp.name = "SeekToFirst"
  /\ status_ = "bad entry in block"
  /\ IsValid

\* The restart entry at offset p cannot be decoded or has shared # 0.
BadRestartEntry(p) ==
  \/ ~ DecodeEntry(data, p, restarts_).ok
  \/ DecodeEntry(data, p, restarts_).shared # W(0)

\* C14: on any buffer, a Seek whose binary search decoded a restart entry
\* that is bad ends Invalid with status Corruption, key and value cleared,
\* current_ = restarts_ and restart_index_ = num_restarts_, and has parsed
\* no entry in a linear scan.
C14_BadRestartEntryAbortsSeek ==
  (/\ iter = "live"
   /\ lastOp.name = "Seek"
   /\ \E i \in 1..Len(trace.probed) : BadRestartEntry(trace.probed[i])) =>
    /\ ~ IsValid
    /\ status_ = "bad entry in block"
    /\ key_ = << >>
    /\ value_ = EmptySlice
    /\ current_ = restarts_
    /\ restart_index_ = num_restarts_
    /\ trace.parsed = << >>

\* A Seek was aborted by a restart entry that decodes, but with shared # 0.
C14_Witness ==
  /\ iter = "live"
  /\ lastOp.name = "Seek"
  /\ trace.probed # << >>
  /\ DecodeEntry(data, trace.probed[Len(trace.probed)], restarts_).ok
  /\ DecodeEntry(data, trace.probed[Len(trace.probed)], restarts_).shared # W(0)
  /\ status_ = "bad entry in block"

\* C15: on any buffer, Seek(target) on a Valid iterator whose key compares
\* equal to target changes nothing: current_, restart_index_, key, value and
\* status stay as they were, and no restart entry or entry is decoded.
C15_SeekToCurrentKeyIsNoOp ==
  [][(lastOp'.name = "Seek" /\ IsValid /\ Compare(key_, lastOp'.target) = 0) =>
       /\ current_' = current_
       /\ restart_index_' = restart_index_
       /\ key_' = key_
       /\ value_' = value_
       /\ status_' = status_
       /\ trace'.probed = << >>
       /\ trace'.parsed = << >>]_vars

\* A Seek to the key of the current entry, which is not the first entry of
\* the block, has returned at once.
C15_Witness ==
  /\ lastOp.name = "Seek"
  /\ IsValid
  /\ key_ = lastOp.target
  /\ current_ > 0
  /\ trace.probed = << >>
  /\ trace.parsed = << >>

\* The least k with 2^k >= n.
RECURSIVE CeilLog2From(_, _)
CeilLog2From(n, k) == IF 2^k >= n THEN k ELSE CeilLog2From(n, k + 1)

CeilLog2(n) == CeilLog2From(n, 0)

\* Offset o lies in restart region index, or is the first entry of the
\* region after it.
InRegionOrNextStart(o, index) ==
  /\ WLeq(GetRestartPoint(index), W(o))
  /\ \/ index = num_restarts_ - 1
     \/ WLeq(W(o), GetRestartPoint(index + 1))

MadeProgress ==
  iter = "live" =>
    /\ \A i \in 1..Len(trace.parsed) :
         /\ trace.parsed[i] < restarts_
         /\ i > 1 => trace.parsed[i] >= trace.parsed[i - 1] + 3
    /\ 3 * Len(trace.parsed) <= restarts_ + 2
    /\ IsValid => WLeq(W(current_ + 3), NextEntryOffset(Cursor))
    /\ Len(trace.probed) < num_restarts_

\* C17: on any accepted buffer every operation comes to an end, because
\* each of its loops makes progress (MadeProgress), and the backward walk of
\* Prev stops at a restart index between 0 and the one it started from.
C17_OperationsMakeProgress ==
  [][/\ MadeProgress'
     /\ (lastOp'.name = "Prev" /\ trace'.left # -1) =>
          (0 <= trace'.left /\ trace'.left <= restart_index_)]_vars

\* SeekToLast has parsed two entries of a buffer whose two restart offsets
\* are the same.
C17_Witness ==
  /\ iter = "live"
  /\ lastOp.name = "SeekToLast"
  /\ num_restarts_ = 2
  /\ GetRestartPoint(0) = GetRestartPoint(1)
  /\ Len(trace.parsed) = 2

\* C18 as stated: right after construction the live iterator is Invalid
\* and its value is a zero-length placeholder at the offset of restart
\* point 0, from which a forward parse would start.
C18_FreshIteratorAtRestartZero ==
  (iter = "live" /\ lastOp.name = "NewIterator") =>
    /\ ~ IsValid
    /\ current_ = restarts_
    /\ value_ = [off |-> GetRestartPoint(0), size |-> W(0)]

\* C18 amended: right after construction the live iterator is Invalid with
\* current_ = restarts_, restart_index_ = num_restarts_, an empty key, status
\* ok and the default empty Slice as value, which is no position in the
\* block; the first parse is made by the first positioning operation, at
\* the offset of a restart point (restart point 0 for SeekToFirst).
C18_FreshIteratorIsUnpositioned ==
  /\ (iter = "live" /\ lastOp.name = "NewIterator") =>
       /\ ~ IsValid
       /\ current_ = restarts_
       /\ restart_index_ = num_restarts_
       /\ key_ = << >>
       /\ value_ = EmptySlice
       /\ status_ = "ok"
  /\ (iter = "live" /\ lastOp.first /\ trace.parsed # << >>) =>
       /\ \E k \in 0..(num_restarts_ - 1) : GetRestartPoint(k) = W(trace.parsed[1])
       /\ lastOp.name = "SeekToFirst" => GetRestartPoint(0) = W(trace.parsed[1])

\* The first operation on a fresh iterator was a Seek that resolved to a
\* restart point other than 0 and parsed from there.
C18_Witness ==
  /\ iter = "live"
  /\ lastOp.first
  /\ lastOp.name = "Seek"
  /\ trace.left > 0
  /\ trace.parsed # << >>
  /\ IsValid

\* C19: on any accepted buffer, after every operation of the live
\* iterator, current_ <= restarts_; an Invalid iterator has
\* current_ = restarts_ and restart_index_ = num_restarts_; a Valid one has
\* restart_index_ < num_restarts_; and no assert of GetRestartPoint or of
\* Seek has failed.
C19_CursorStaysInShape ==
  iter = "live" =>
    /\ current_ <= restarts_
    /\ ~ IsValid => (current_ = restarts_ /\ restart_index_ = num_restarts_)
    /\ IsValid => (0 <= restart_index_ /\ restart_index_ < num_restarts_)
    /\ ~ trace.afail

\* On a buffer with two restart points, Prev has walked back to restart
\* index 0 without finding an earlier entry.
C19_Witness ==
  /\ iter = "live"
  /\ num_restarts_ = 2
  /\ lastOp.name = "Prev"
  /\ ~ IsValid
  /\ status_ = "ok"

\* C20: on any accepted buffer with num_restarts > 0, a SeekToFirst that
\* leaves the iterator Invalid with status ok means that there are no entry
\* bytes (restarts_ = 0); a restart offset at or past the restart array is
\* reported as Corruption.
C20_InvalidOkMeansNoEntries ==
  (iter = "live" /\ lastOp.name = "SeekToFirst" /\ ~ IsValid /\ status_ = "ok") =>
    restarts_ = 0

====
